---- MODULE Spec2Model ----
(***************************************************************************)
(* Model of the shared embedding service (src/index.js): an express app    *)
(* with a bounded insertion-ordered embedding cache (a JS Map), two        *)
(* statistics counters, single and batch embed handlers whose misses       *)
(* await a model call, a cache-clear handler and a health handler.         *)
(*                                                                         *)
(* One action is one run-to-completion segment of the node event loop: a   *)
(* handler from its entry to its first pending await (or to its response   *)
(* when nothing is pending), or the settlement of one model call with the  *)
(* continuations it wakes.                                                 *)
(***************************************************************************)
EXTENDS Integers, Sequences, FiniteSets, TLC

VARIABLES
    embedder,      \* "null" until pipeline() resolves, then "pipeline"   (index.js:7)
    proc,          \* "loading" | "serving" (app.listen done) | "exited"
    embeddingCache,\* the Map, as its entries in insertion order         (index.js:10)
    requestCount,  \* index.js:14
    cacheHits,     \* index.js:15
    reqs,          \* handler invocations suspended on model calls, by slot
    ev,            \* the segment that just ran: operation, input, model calls made, response sent
    inserted,      \* history: the entries cacheSet was called with since the cache was
                   \* last empty by construction or clear, while their keys are distinct
    watch          \* history: one answered single embed (text, vector) that is followed up

vars == <<embedder, proc, embeddingCache, requestCount, cacheHits, reqs, ev, inserted, watch>>

----------------------------------------------------------------------------
(* Bounds of the model and scaled program constants *)

\* MAX_CACHE_SIZE is 5000 in the source; scaled so that the cache fills.
MAX_CACHE_SIZE == 2
\* text.slice(0, 300) in the source; scaled so that texts longer than the key exist.
KEY_PREFIX_LEN == 1
\* the health handler's fixed dimensions and the length of every model vector
DIMENSIONS == 384

MaxBatch == 2      \* longest texts array of a batch request
MaxInFlight == 2   \* model calls in flight at once
MaxCount == 3      \* cap on requestCount (reset by clear)
MaxCountLive == 2  \* the same cap in the specification with fairness

\* Strings are sequences of characters; <<>> is the empty string "". The texts
\* give three keys (one more than the cache holds), the empty key among them,
\* and two texts, "a" and "ab", that share a key.
Texts == {<<>>, <<"a">>, <<"a", "b">>, <<"b">>}

\* Request bodies whose "text" is not a string.
Absent == <<"absent">>        \* no text field: undefined (falsy)
NonString == <<"nonstring">>  \* a truthy value without .slice, e.g. a number
SingleInputs == Texts \cup {Absent, NonString}

\* Request bodies whose "texts" is not an array.
NotArray == <<<<"notarray">>>>
\* Batch elements are the texts that are their own key; the text "ab", which
\* shares its key with "a", arrives in single requests.
BatchTexts == {t \in Texts : Len(t) <= KEY_PREFIX_LEN}
BatchInputs == UNION {[1..n -> BatchTexts] : n \in 0..MaxBatch} \cup {NotArray}

Slots == 1..MaxInFlight

----------------------------------------------------------------------------
(* The model gateway: a deterministic black box, text -> vector *)

\* The vector of a text, identified by the text it was generated from.
Embed(text) == [of |-> text]
NoVec == [of |-> <<"none">>]

----------------------------------------------------------------------------
(* The JS Map, as a sequence of entries in insertion order *)

Min(a, b) == IF a < b THEN a ELSE b

MapHas(m, k) == \E i \in 1..Len(m) : m[i].key = k

MapGet(m, k) == m[CHOOSE i \in 1..Len(m) : m[i].key = k].val

\* Map.prototype.set: an existing key keeps its position, a new key goes last.
MapSet(m, k, v) ==
    IF MapHas(m, k)
    THEN [i \in 1..Len(m) |-> IF m[i].key = k THEN [key |-> k, val |-> v] ELSE m[i]]
    ELSE Append(m, [key |-> k, val |-> v])

MapDelete(m, k) == SelectSeq(m, LAMBDA e : e.key # k)

MapKeys(m) == [i \in 1..Len(m) |-> m[i].key]

\* JS truthiness of a string: only "" is falsy.
Truthy(s) == s # <<>>

----------------------------------------------------------------------------
(* Cache helpers *)

\* Mutant of getCacheKey: text.slice(KEY_PREFIX_LEN), the text after the prefix.
getCacheKeyTail(text) == SubSeq(text, KEY_PREFIX_LEN + 1, Len(text))

\* Mutant of getCacheKey: the whole text is the key.
getCacheKeyFullText(text) == text

getCacheKey(text) == SubSeq(text, 1, Min(Len(text), KEY_PREFIX_LEN))

cacheSet(m, key, value) ==
    LET evicted ==
            IF Len(m) >= MAX_CACHE_SIZE
            THEN \* keys().next().value is undefined (falsy) on an empty Map
                 IF Len(m) > 0 /\ Truthy(m[1].key) THEN MapDelete(m, m[1].key) ELSE m
            ELSE m
    IN  MapSet(evicted, key, value)

\* cacheGet: the value and whether cacheHits was incremented.
cacheGet(m, key) ==
    IF MapHas(m, key)
    THEN [found |-> TRUE, val |-> MapGet(m, key)]
    ELSE [found |-> FALSE, val |-> NoVec]

\* Mutant of generateEmbedding: the cache is not consulted.
generateEmbeddingNoLookup(m, text) == [st |-> "pending", vec |-> NoVec]

\* generateEmbedding up to its await: a hit returns the cached vector, a miss
\* calls embedder(text) with the full text and suspends.
generateEmbedding(m, text) ==
    LET cached == cacheGet(m, getCacheKey(text))
    IN  IF cached.found
        THEN [st |-> "hit", vec |-> cached.val]
        ELSE [st |-> "pending", vec |-> NoVec]

----------------------------------------------------------------------------
(* Responses and the record of the segment that just ran *)

NoStats == [ready |-> FALSE, requests |-> 0, cacheHits |-> 0, cacheSize |-> 0]

NoResp ==
    [status |-> 0, error |-> "", embedding |-> NoVec, embeddings |-> <<>>,
     count |-> 0, dimensions |-> 0, entriesRemoved |-> 0, stats |-> NoStats]

ErrorResp(code, msg) == [NoResp EXCEPT !.status = code, !.error = msg]

\* embedding.length of a model vector
VecLength(v) == DIMENSIONS

EmbedResp(embedding) ==
    [NoResp EXCEPT !.status = 200, !.embedding = embedding,
                   !.dimensions = VecLength(embedding)]

\* Mutant of PromiseAll: the results in another order than the input's.
PromiseAllReversed(elems) ==
    [i \in 1..Len(elems) |-> elems[Len(elems) + 1 - i].vec]

\* Promise.all: the results in the order of the input promises.
PromiseAll(elems) == [i \in 1..Len(elems) |-> elems[i].vec]

\* Mutant of BatchResp: dimensions is the model's vector length, with no
\* fallback for an empty result.
BatchRespNoFallback(embeddings) ==
    [NoResp EXCEPT !.status = 200, !.embeddings = embeddings,
                   !.count = Len(embeddings),
                   !.dimensions = DIMENSIONS]

BatchResp(embeddings) ==
    [NoResp EXCEPT !.status = 200, !.embeddings = embeddings,
                   !.count = Len(embeddings),
                   !.dimensions = IF Len(embeddings) > 0
                                  THEN VecLength(embeddings[1]) ELSE 0]

NoReq == [kind |-> "none", texts |-> <<>>, elems |-> <<>>, responded |-> FALSE]

\* op: the segment; text, texts: the request's input (for a settled model call:
\* the element's text, and the texts of its batch); idx: the element; calls: the
\* texts embedder() was called with; resp: the response sent, if any.
Event(op, text, texts, idx, calls, resp) ==
    [op |-> op, text |-> text, texts |-> texts, idx |-> idx,
     calls |-> calls, resp |-> resp]

\* The history variable: no answer followed up yet, or no following up at all.
NoWatch == [text |-> Absent, vec |-> NoVec, clean |-> TRUE]
WatchOff == [text |-> <<"off">>, vec |-> NoVec, clean |-> TRUE]

----------------------------------------------------------------------------
(* History of the insertions since the cache was last empty *)

\* The history stops once a key is inserted a second time.
Repeated == <<[key |-> <<"repeated">>, val |-> NoVec]>>

InsertedAfterSet(log, key, value) ==
    IF log = Repeated \/ MapHas(log, key) THEN Repeated
    ELSE Append(log, [key |-> key, val |-> value])

----------------------------------------------------------------------------
(* History of one answered single embed *)

\* The key that cacheSet's eviction branch deletes from m, if any.
EvictedKeys(m) ==
    IF Len(m) >= MAX_CACHE_SIZE /\ Len(m) > 0 /\ Truthy(m[1].key) THEN {m[1].key} ELSE {}

\* The followed-up answer after a cacheSet(key, ...) on m: dropped when its key is
\* evicted, marked not clean when its key is written.
WatchAfterSet(w, m, key) ==
    IF w \in {NoWatch, WatchOff} THEN w
    ELSE IF getCacheKey(w.text) \in EvictedKeys(m) THEN NoWatch
    ELSE IF getCacheKey(w.text) = key THEN [w EXCEPT !.clean = FALSE]
    ELSE w

\* A single embed of text answered with vec: follow it up from here, or keep w.
WatchChoices(w, text, vec) ==
    IF w = WatchOff THEN {w} ELSE {w, [text |-> text, vec |-> vec, clean |-> TRUE]}

----------------------------------------------------------------------------
(* Startup: loadModel().then(listen).catch(exit) *)

Init ==
    /\ embedder = "null"
    /\ proc = "loading"
    /\ embeddingCache = <<>>
    /\ requestCount = 0
    /\ cacheHits = 0
    /\ reqs = [s \in Slots |-> NoReq]
    /\ inserted = <<>>
    /\ ev = Event("start", <<>>, <<>>, 0, <<>>, NoResp)
    /\ watch = WatchOff

\* pipeline() resolves: embedder is set, then the server starts listening.
LoadModel ==
    /\ proc = "loading"
    /\ embedder' = "pipeline"
    /\ proc' = "serving"
    /\ ev' = Event("load", <<>>, <<>>, 0, <<>>, NoResp)
    /\ UNCHANGED <<embeddingCache, requestCount, cacheHits, reqs, inserted, watch>>

\* pipeline() rejects: process.exit(1).
LoadFail ==
    /\ proc = "loading"
    /\ proc' = "exited"
    /\ ev' = Event("loadfail", <<>>, <<>>, 0, <<>>, NoResp)
    /\ UNCHANGED <<embedder, embeddingCache, requestCount, cacheHits, reqs, inserted, watch>>

----------------------------------------------------------------------------
(* Handlers *)

FreeSlots == {s \in Slots : reqs[s].kind = "none"}

PendingIn(elems) == Cardinality({i \in 1..Len(elems) : elems[i].st = "pending"})

\* model calls in flight
Pending ==
    LET F[s \in 0..MaxInFlight] == IF s = 0 THEN 0 ELSE PendingIn(reqs[s].elems) + F[s - 1]
    IN  F[MaxInFlight]

\* Mutant of NotLoaded: the handlers do not test embedder.
NotLoadedSkipped == FALSE

\* if (!embedder)
NotLoaded == embedder = "null"

\* Mutant of HitCount: cacheHits++ on every lookup, hit or miss.
HitCountEveryLookup(elems) == Len(elems)

\* the cacheHits++ of cacheGet, over the lookups of one handler run
HitCount(elems) == Cardinality({i \in 1..Len(elems) : elems[i].st = "hit"})

\* POST /embed
PostEmbed(text) ==
    IF NotLoaded THEN
        /\ ev' = Event("embed", text, <<>>, 0, <<>>, ErrorResp(503, "Model not loaded yet"))
        /\ UNCHANGED <<embedder, proc, embeddingCache, requestCount, cacheHits, reqs, inserted, watch>>
    ELSE IF text = Absent \/ ~Truthy(text) THEN
        /\ ev' = Event("embed", text, <<>>, 0, <<>>, ErrorResp(400, "Missing text field"))
        /\ UNCHANGED <<embedder, proc, embeddingCache, requestCount, cacheHits, reqs, inserted, watch>>
    ELSE IF text = NonString THEN
        \* text.slice is not a function: caught, answered 500
        /\ ev' = Event("embed", text, <<>>, 0, <<>>, ErrorResp(500, "TypeError"))
        /\ UNCHANGED <<embedder, proc, embeddingCache, requestCount, cacheHits, reqs, inserted, watch>>
    ELSE
        LET e == generateEmbedding(embeddingCache, text) IN
        /\ requestCount + 1 <= MaxCount
        /\ requestCount' = requestCount + 1
        /\ cacheHits' = cacheHits + HitCount(<<e>>)
        /\ IF e.st = "hit"
           THEN /\ ev' = Event("embed", text, <<>>, 0, <<>>, EmbedResp(e.vec))
                /\ watch' \in WatchChoices(watch, text, e.vec)
                /\ UNCHANGED reqs
           ELSE /\ Pending + 1 <= MaxInFlight
                /\ LET s == CHOOSE x \in FreeSlots : \A y \in FreeSlots : x <= y
                   IN  reqs' = [reqs EXCEPT ![s] =
                                  [kind |-> "embed", texts |-> <<text>>,
                                   elems |-> <<e>>, responded |-> FALSE]]
                /\ ev' = Event("embed", text, <<>>, 0, <<text>>, NoResp)
                /\ UNCHANGED watch
        /\ UNCHANGED <<embedder, proc, embeddingCache, inserted>>

\* texts.map(text => generateEmbedding(text)), each up to its await
BatchStart(m, texts) == [i \in 1..Len(texts) |-> generateEmbedding(m, texts[i])]

\* the texts embedder() was called with, in call order
Calls(texts, elems) ==
    LET F[i \in 0..Len(texts)] ==
            IF i = 0 THEN <<>>
            ELSE IF elems[i].st = "pending" THEN Append(F[i - 1], texts[i]) ELSE F[i - 1]
    IN  F[Len(texts)]

\* POST /embed/batch
\* Mutant of IsArray: an empty array is refused as well.
IsArrayNonEmpty(texts) == texts # NotArray /\ texts # <<>>

\* Array.isArray(texts)
IsArray(texts) == texts # NotArray

PostBatch(texts) ==
    IF NotLoaded THEN
        /\ ev' = Event("batch", <<>>, texts, 0, <<>>, ErrorResp(503, "Model not loaded yet"))
        /\ UNCHANGED <<embedder, proc, embeddingCache, requestCount, cacheHits, reqs, inserted, watch>>
    ELSE IF ~IsArray(texts) THEN
        /\ ev' = Event("batch", <<>>, texts, 0, <<>>, ErrorResp(400, "Missing texts array"))
        /\ UNCHANGED <<embedder, proc, embeddingCache, requestCount, cacheHits, reqs, inserted, watch>>
    ELSE
        LET elems == BatchStart(embeddingCache, texts) IN
        /\ requestCount + Len(texts) <= MaxCount
        /\ requestCount' = requestCount + Len(texts)
        /\ cacheHits' = cacheHits + HitCount(elems)
        /\ IF \A i \in 1..Len(elems) : elems[i].st = "hit"
           THEN /\ ev' = Event("batch", <<>>, texts, 0, <<>>, BatchResp(PromiseAll(elems)))
                /\ UNCHANGED reqs
           ELSE /\ Pending + PendingIn(elems) <= MaxInFlight
                /\ LET s == CHOOSE x \in FreeSlots : \A y \in FreeSlots : x <= y
                   IN  reqs' = [reqs EXCEPT ![s] =
                                  [kind |-> "batch", texts |-> texts,
                                   elems |-> elems, responded |-> FALSE]]
                /\ ev' = Event("batch", <<>>, texts, 0, Calls(texts, elems), NoResp)
        /\ UNCHANGED <<embedder, proc, embeddingCache, inserted, watch>>

Settled(elems) == \A i \in 1..Len(elems) : elems[i].st # "pending"

\* the request record after one of its model calls settled: dropped once none is pending
\* Mutant of AfterSettle: that the handler has answered is not remembered.
AfterSettleForgets(r, elems, responded) ==
    IF Settled(elems) THEN NoReq
    ELSE [r EXCEPT !.elems = elems]

\* What is left of a request when one of its model calls has settled: nothing
\* once all have settled; until then the promises still pending, and whether
\* the handler has answered (its await on Promise.all is over).
AfterSettle(r, elems, responded) ==
    IF Settled(elems) THEN NoReq
    ELSE [r EXCEPT !.elems = elems, !.responded = responded]

\* embedder(text) of element i of the request in slot s resolves: the rest of
\* generateEmbedding runs (cacheSet), then the handler's continuation if this
\* was the last result the handler waited for.
ModelResolve(s, i) ==
    LET r == reqs[s]
        text == r.texts[i]
        embedding == Embed(text)
        elems == [r.elems EXCEPT ![i] = [st |-> "ok", vec |-> embedding]]
        answers == ~r.responded /\ Settled(elems)
        resp == IF ~answers THEN NoResp
                ELSE IF r.kind = "embed" THEN EmbedResp(embedding)
                ELSE BatchResp(PromiseAll(elems))
        w == WatchAfterSet(watch, embeddingCache, getCacheKey(text))
    IN  /\ r.kind # "none"
        /\ i \in 1..Len(r.elems)
        /\ r.elems[i].st = "pending"
        /\ embeddingCache' = cacheSet(embeddingCache, getCacheKey(text), embedding)
        /\ inserted' = InsertedAfterSet(inserted, getCacheKey(text), embedding)
        /\ reqs' = [reqs EXCEPT ![s] = AfterSettle(r, elems, r.responded \/ answers)]
        /\ ev' = Event("resolve", text, IF r.kind = "batch" THEN r.texts ELSE <<>>,
                       i, <<>>, resp)
        /\ watch' \in (IF answers /\ r.kind = "embed"
                       THEN WatchChoices(w, text, embedding) ELSE {w})
        /\ UNCHANGED <<embedder, proc, requestCount, cacheHits>>

\* Mutant of ModelReject: the catch block only logs, it sends no response.
ModelRejectSilent(s, i) ==
    LET r == reqs[s]
        elems == [r.elems EXCEPT ![i] = [st |-> "fail", vec |-> NoVec]]
    IN  /\ r.kind # "none"
        /\ i \in 1..Len(r.elems)
        /\ r.elems[i].st = "pending"
        /\ reqs' = [reqs EXCEPT ![s] = AfterSettle(r, elems, TRUE)]
        /\ ev' = Event("reject", r.texts[i], IF r.kind = "batch" THEN r.texts ELSE <<>>,
                       i, <<>>, NoResp)
        /\ UNCHANGED <<embedder, proc, embeddingCache, requestCount, cacheHits, inserted, watch>>

\* Mutant of ModelReject: the rejection abandons the request's other calls.
ModelRejectCancels(s, i) ==
    LET r == reqs[s]
        resp == IF r.responded THEN NoResp ELSE ErrorResp(500, "model error")
    IN  /\ r.kind # "none"
        /\ i \in 1..Len(r.elems)
        /\ r.elems[i].st = "pending"
        /\ reqs' = [reqs EXCEPT ![s] = NoReq]
        /\ ev' = Event("reject", r.texts[i], IF r.kind = "batch" THEN r.texts ELSE <<>>,
                       i, <<>>, resp)
        /\ UNCHANGED <<embedder, proc, embeddingCache, requestCount, cacheHits, inserted, watch>>

\* Mutant of ModelReject: the failed generation is cached as an absent vector.
ModelRejectCaches(s, i) ==
    LET r == reqs[s]
        elems == [r.elems EXCEPT ![i] = [st |-> "fail", vec |-> NoVec]]
        resp == IF r.responded THEN NoResp ELSE ErrorResp(500, "model error")
    IN  /\ r.kind # "none"
        /\ i \in 1..Len(r.elems)
        /\ r.elems[i].st = "pending"
        /\ embeddingCache' = cacheSet(embeddingCache, getCacheKey(r.texts[i]), NoVec)
        /\ reqs' = [reqs EXCEPT ![s] = AfterSettle(r, elems, TRUE)]
        /\ ev' = Event("reject", r.texts[i], IF r.kind = "batch" THEN r.texts ELSE <<>>,
                       i, <<>>, resp)
        /\ UNCHANGED <<embedder, proc, requestCount, cacheHits, inserted, watch>>

\* embedder(text) of element i rejects: generateEmbedding rejects without
\* reaching cacheSet; the handler's catch answers 500 unless it has answered.
ModelReject(s, i) ==
    LET r == reqs[s]
        elems == [r.elems EXCEPT ![i] = [st |-> "fail", vec |-> NoVec]]
        resp == IF r.responded THEN NoResp ELSE ErrorResp(500, "model error")
    IN  /\ r.kind # "none"
        /\ i \in 1..Len(r.elems)
        /\ r.elems[i].st = "pending"
        /\ reqs' = [reqs EXCEPT ![s] = AfterSettle(r, elems, TRUE)]
        /\ ev' = Event("reject", r.texts[i], IF r.kind = "batch" THEN r.texts ELSE <<>>,
                       i, <<>>, resp)
        /\ UNCHANGED <<embedder, proc, embeddingCache, requestCount, cacheHits, inserted, watch>>

\* Mutant of ClearCache: cacheHits is not reset.
ClearCacheKeepsHits ==
    /\ embeddingCache' = <<>>
    /\ requestCount' = 0
    /\ ev' = Event("clear", <<>>, <<>>, 0, <<>>,
                   [NoResp EXCEPT !.status = 200, !.entriesRemoved = Len(embeddingCache)])
    /\ inserted' = <<>>
    /\ watch' = IF watch = WatchOff THEN WatchOff ELSE NoWatch
    /\ UNCHANGED <<embedder, proc, reqs, cacheHits>>

\* Mutant of ClearCache: requestCount is not reset.
ClearCacheKeepsRequests ==
    /\ embeddingCache' = <<>>
    /\ cacheHits' = 0
    /\ ev' = Event("clear", <<>>, <<>>, 0, <<>>,
                   [NoResp EXCEPT !.status = 200, !.entriesRemoved = Len(embeddingCache)])
    /\ inserted' = <<>>
    /\ watch' = IF watch = WatchOff THEN WatchOff ELSE NoWatch
    /\ UNCHANGED <<embedder, proc, reqs, requestCount>>

\* POST /cache/clear
ClearCache ==
    /\ embeddingCache' = <<>>
    /\ cacheHits' = 0
    /\ requestCount' = 0
    /\ ev' = Event("clear", <<>>, <<>>, 0, <<>>,
                   [NoResp EXCEPT !.status = 200, !.entriesRemoved = Len(embeddingCache)])
    /\ inserted' = <<>>
    /\ watch' = IF watch = WatchOff THEN WatchOff ELSE NoWatch
    /\ UNCHANGED <<embedder, proc, reqs>>

\* GET /health
Health ==
    /\ ev' = Event("health", <<>>, <<>>, 0, <<>>,
                   [NoResp EXCEPT !.status = 200, !.dimensions = DIMENSIONS,
                       !.stats = [ready |-> embedder # "null", requests |-> requestCount,
                                  cacheHits |-> cacheHits,
                                  cacheSize |-> Len(embeddingCache)]])
    /\ UNCHANGED <<embedder, proc, embeddingCache, requestCount, cacheHits, reqs, inserted, watch>>

----------------------------------------------------------------------------
(* Specifications *)

Embeds == \E text \in SingleInputs : PostEmbed(text)
Batches == \E texts \in BatchInputs : PostBatch(texts)
Resolves == \E s \in Slots : \E i \in 1..MaxBatch : ModelResolve(s, i)
Rejects == \E s \in Slots : \E i \in 1..MaxBatch : ModelReject(s, i)

\* The server accepts requests once app.listen has run, after loadModel resolved.
Listening == proc = "serving"

Next ==
    \/ LoadModel
    \/ LoadFail
    \/ Listening /\ Embeds
    \/ Listening /\ Batches
    \/ Listening /\ ClearCache
    \/ Listening /\ Health
    \/ Resolves
    \/ Rejects

Spec == Init /\ [][Next]_vars

\* The same program, with the history of one answered single embed kept.
InitFollow ==
    /\ Init!1 /\ Init!2 /\ Init!3 /\ Init!4 /\ Init!5 /\ Init!6 /\ Init!7 /\ Init!8
    /\ watch = NoWatch

SpecFollow == InitFollow /\ [][Next]_vars

\* The program when every model call settles: each embedder(text) promise in
\* flight is eventually resolved or rejected. The elements counted since the
\* last clear are at most MaxCountLive.
NextLive ==
    \/ LoadModel
    \/ LoadFail
    \/ Listening /\ Embeds /\ requestCount' <= MaxCountLive
    \/ Listening /\ Batches /\ requestCount' <= MaxCountLive
    \/ Listening /\ ClearCache
    \/ Listening /\ Health
    \/ Resolves
    \/ Rejects

SpecLive ==
    /\ Init
    /\ [][NextLive]_vars
    /\ \A s \in Slots : \A i \in 1..MaxBatch :
           WF_vars(ModelResolve(s, i) \/ ModelReject(s, i))

\* The handlers as express may invoke them at any time before the process
\* exits: every behaviour of Spec is one of SpecHandlers, which does not rely
\* on app.listen running only after loadModel resolved.
NextHandlers ==
    \/ LoadModel
    \/ LoadFail
    \/ proc # "exited" /\ Embeds
    \/ proc # "exited" /\ Batches
    \/ proc # "exited" /\ ClearCache
    \/ proc # "exited" /\ Health
    \/ Resolves
    \/ Rejects

SpecHandlers == Init /\ [][NextHandlers]_vars

----------------------------------------------------------------------------
(* Claims *)

Range(f) == {f[i] : i \in DOMAIN f}

\* the position of key k in map m (0 when absent)
Position(m, k) == IF MapHas(m, k) THEN CHOOSE i \in 1..Len(m) : m[i].key = k ELSE 0

\* a model call resolved in the step, so cacheSet ran with this key
SetKey == getCacheKey(ev'.text)

\* C1: in every reachable state the cache holds at most MAX_CACHE_SIZE entries.
C1_CapacityInvariant == Len(embeddingCache) <= MAX_CACHE_SIZE

\* C2: once MAX_CACHE_SIZE or more pairwise-distinct keys have been inserted
\* into an empty cache, the cache is exactly the last MAX_CACHE_SIZE inserted
\* entries, in insertion order, each with its inserted value.
C2_FifoRetention ==
    (inserted # Repeated /\ Len(inserted) >= MAX_CACHE_SIZE)
        => embeddingCache =
               SubSeq(inserted, Len(inserted) - MAX_CACHE_SIZE + 1, Len(inserted))

\* C3: a cacheSet with a key that is already present leaves the key once in
\* the cache and keeps its order relative to every other key that stays.
C3_NoRefreshOnOverwrite ==
    [][(ev'.op = "resolve" /\ MapHas(embeddingCache, SetKey))
        => /\ Cardinality({i \in 1..Len(embeddingCache') :
                              embeddingCache'[i].key = SetKey}) = 1
           /\ \A k \in Range(MapKeys(embeddingCache)) \cap Range(MapKeys(embeddingCache')) :
                 (Position(embeddingCache, k) < Position(embeddingCache, SetKey))
                     <=> (Position(embeddingCache', k) < Position(embeddingCache', SetKey))
      ]_vars

\* C4: a cacheSet removes an entry exactly when its key is new and the cache
\* holds MAX_CACHE_SIZE entries, and then it removes the oldest entry alone;
\* overwriting a present key leaves the set of keys unchanged.
C4_EvictOnlyNewKeyAtCapacity ==
    [][ev'.op = "resolve"
        => LET before == Range(MapKeys(embeddingCache))
               after == Range(MapKeys(embeddingCache'))
               removed == before \ after
           IN  /\ (removed # {})
                     <=> (SetKey \notin before /\ Len(embeddingCache) = MAX_CACHE_SIZE)
               /\ removed # {} => removed = {embeddingCache[1].key}
               /\ SetKey \in before => after = before
      ]_vars

\* C5 (as claimed): a single embed of a text whose earlier single embed was
\* answered, with no clear and no eviction of its key since, is answered with
\* the same vector, counts one hit and calls the model with nothing.
C5_Idempotence ==
    [][(watch \notin {NoWatch, WatchOff} /\ ev'.op = "embed" /\ ev'.text = watch.text)
        => /\ ev'.resp.status = 200
           /\ ev'.resp.embedding = watch.vec
           /\ cacheHits' = cacheHits + 1
           /\ ev'.calls = <<>>
      ]_vars

\* C5 (amended): the same, provided that also no model call of another
\* in-flight request was inserted under the text's key since the first answer.
C5_IdempotenceNoOverwrite ==
    [][(watch \notin {NoWatch, WatchOff} /\ watch.clean
            /\ ev'.op = "embed" /\ ev'.text = watch.text)
        => /\ ev'.resp.status = 200
           /\ ev'.resp.embedding = watch.vec
           /\ cacheHits' = cacheHits + 1
           /\ ev'.calls = <<>>
      ]_vars

\* a second single embed of the same text was just answered from the cache
C5_Witness ==
    /\ ev.op = "embed" /\ ev.resp.status = 200
    /\ watch.text = ev.text /\ watch.clean /\ ev.resp.embedding = watch.vec
    /\ requestCount = 2 /\ cacheHits = 1 /\ Len(embeddingCache) = 1

\* a successful batch response was sent in the step that led here
BatchAnswered ==
    /\ ev.resp.status = 200
    /\ ev.op = "batch" \/ (ev.op = "resolve" /\ ev.texts # <<>>)

\* C6: a successful batch response has as many vectors as the request has
\* texts, and its i-th vector is a vector of the i-th text's key: the cached
\* one when the whole batch was served from the cache, the model's vector of
\* the i-th text for the element whose model call resolved last.
C6_BatchOrder ==
    BatchAnswered
        => /\ Len(ev.resp.embeddings) = Len(ev.texts)
           /\ ev.resp.count = Len(ev.texts)
           /\ \A i \in 1..Len(ev.texts) :
                 /\ ev.resp.embeddings[i] # NoVec
                 /\ getCacheKey(ev.resp.embeddings[i].of) = getCacheKey(ev.texts[i])
                 /\ ev.op = "batch"
                       => ev.resp.embeddings[i] =
                              MapGet(embeddingCache, getCacheKey(ev.texts[i]))
                 /\ (ev.op = "resolve" /\ i = ev.idx)
                       => ev.resp.embeddings[i] = Embed(ev.texts[i])

\* a batch of two different texts, both misses, answered when its first
\* element resolved, after its second
C6_Witness ==
    /\ BatchAnswered /\ ev.op = "resolve" /\ ev.idx = 1
    /\ Len(ev.texts) = 2 /\ ev.texts[1] # ev.texts[2]
    /\ requestCount = 2 /\ cacheHits = 0

\* the number of texts whose key is in the cache
CachedAmong(texts) ==
    Cardinality({i \in 1..Len(texts) : MapHas(embeddingCache, getCacheKey(texts[i]))})

\* C7: an accepted single embed adds 1 to requestCount, an accepted batch of
\* N texts adds N; cacheHits grows by the number of elements whose key is
\* cached at the lookup, and settling a miss changes neither counter.
C7_Accounting ==
    [][/\ (ev'.op = "embed" /\ embedder # "null" /\ ev'.text \in Texts \ {<<>>})
            => /\ requestCount' = requestCount + 1
               /\ cacheHits' = cacheHits + CachedAmong(<<ev'.text>>)
       /\ (ev'.op = "batch" /\ embedder # "null" /\ ev'.texts # NotArray)
            => /\ requestCount' = requestCount + Len(ev'.texts)
               /\ cacheHits' = cacheHits + CachedAmong(ev'.texts)
       /\ ev'.op \in {"resolve", "reject"}
            => UNCHANGED <<requestCount, cacheHits>>
      ]_vars

\* a batch of two texts was just accepted with one hit and one miss
C7_Witness ==
    /\ ev.op = "batch" /\ Len(ev.texts) = 2 /\ Len(ev.calls) = 1
    /\ requestCount = 3 /\ cacheHits = 1

\* C8: right after a clear the cache is empty, both counters are 0, every key
\* misses, and the response reports the number of entries there were.
C8_ClearResets ==
    [][ev'.op = "clear"
        => /\ embeddingCache' = <<>>
           /\ requestCount' = 0
           /\ cacheHits' = 0
           /\ \A t \in Texts : generateEmbedding(embeddingCache', t).st = "pending"
           /\ ev'.resp.status = 200
           /\ ev'.resp.entriesRemoved = Len(embeddingCache)
      ]_vars

\* a clear of a full cache, with a model call in flight
C8_Witness ==
    /\ ev.op = "clear" /\ ev.resp.entriesRemoved = MAX_CACHE_SIZE
    /\ Pending > 0 /\ embeddingCache = <<>>

\* C9: while embedder is null a single or batch embed is answered 503, calls
\* the model with nothing and changes neither the cache nor the counters; no
\* model call is in flight before embedder is set.
C9_NotReadyRejection ==
    [][/\ (embedder = "null" /\ ev'.op \in {"embed", "batch"})
            => /\ ev'.resp.status = 503
               /\ ev'.calls = <<>>
               /\ UNCHANGED <<embeddingCache, requestCount, cacheHits, reqs>>
       /\ embedder' = "null" => Pending' = 0 /\ embeddingCache' = <<>>
      ]_vars

\* a request was answered "model not loaded"
C9_Witness == embedder = "null" /\ ev.op \in {"embed", "batch"} /\ ev.resp.status = 503

\* C10: a rejected model call leaves the cache as it was, and a single embed of
\* a text whose key is not cached calls the model with that text.
C10_FailureNotCached ==
    [][/\ ev'.op = "reject" => embeddingCache' = embeddingCache
       /\ (ev'.op = "embed" /\ ev'.text \in Texts \ {<<>>}
               /\ ~MapHas(embeddingCache, getCacheKey(ev'.text)))
            => ev'.calls = <<ev'.text>>
      ]_vars

\* a model call was just rejected for a key that is not cached, the cache full
C10_Witness ==
    /\ ev.op = "reject" /\ ev.resp.status = 500
    /\ ~MapHas(embeddingCache, getCacheKey(ev.text))
    /\ Len(embeddingCache) = MAX_CACHE_SIZE

\* t1 and t2 are distinct texts with the same first KEY_PREFIX_LEN characters
Collide(t1, t2) ==
    /\ t1 # t2
    /\ \A i \in 1..KEY_PREFIX_LEN : (i <= Len(t1)) = (i <= Len(t2))
    /\ \A i \in 1..KEY_PREFIX_LEN : i <= Len(t1) /\ i <= Len(t2) => t1[i] = t2[i]

\* C11 (as claimed): after a single embed of t1 was answered, with no clear and
\* no eviction of its key since, a single embed of another text t2 with the
\* same key is answered from the cache with the vector t1's request got, and
\* calls the model with nothing.
C11_TruncationCollision ==
    [][(watch \notin {NoWatch, WatchOff} /\ ev'.op = "embed" /\ ev'.text \in Texts
            /\ Collide(watch.text, ev'.text))
        => /\ ev'.resp.status = 200
           /\ ev'.resp.embedding = watch.vec
           /\ cacheHits' = cacheHits + 1
           /\ ev'.calls = <<>>
      ]_vars

\* C11 (amended): the same, provided that also no model call of another
\* in-flight request was inserted under the key since t1's answer.
C11_TruncationCollisionNoOverwrite ==
    [][(watch \notin {NoWatch, WatchOff} /\ watch.clean
            /\ ev'.op = "embed" /\ ev'.text \in Texts
            /\ Collide(watch.text, ev'.text))
        => /\ ev'.resp.status = 200
           /\ ev'.resp.embedding = watch.vec
           /\ cacheHits' = cacheHits + 1
           /\ ev'.calls = <<>>
      ]_vars

\* "ab" was just answered from the cache with the vector generated for "a"
C11_Witness ==
    /\ ev.op = "embed" /\ ev.resp.status = 200 /\ ev.calls = <<>>
    /\ watch \notin {NoWatch, WatchOff} /\ watch.clean
    /\ ev.text # watch.text /\ Len(ev.text) > KEY_PREFIX_LEN
    /\ watch.vec = Embed(watch.text) /\ ev.resp.embedding = Embed(watch.text)

\* C12 (as claimed): a single embed whose text is empty, absent or not a string
\* is answered 400, calls the model with nothing and leaves the cache and the
\* counters unchanged.
C12_EmbedValidation ==
    [][(ev'.op = "embed" /\ embedder # "null" /\ ev'.text \in {<<>>, Absent, NonString})
        => /\ ev'.resp.status = 400
           /\ ev'.calls = <<>>
           /\ UNCHANGED <<embeddingCache, requestCount, cacheHits, reqs>>
      ]_vars

\* C13: with the model ready, a batch of no texts is answered 200 with no
\* embeddings, count 0 and dimensions 0, calls the model with nothing and
\* leaves the cache, the counters and the requests in flight unchanged.
C13_EmptyBatch ==
    [][(ev'.op = "batch" /\ embedder # "null" /\ ev'.texts = <<>>)
        => /\ ev'.resp.status = 200
           /\ ev'.resp.embeddings = <<>>
           /\ ev'.resp.count = 0
           /\ ev'.resp.dimensions = 0
           /\ ev'.calls = <<>>
           /\ UNCHANGED <<embeddingCache, requestCount, cacheHits, reqs>>
      ]_vars

\* an empty batch was just answered while the cache and the counters are not
\* in their initial state and a model call is in flight
C13_Witness ==
    /\ ev.op = "batch" /\ ev.texts = <<>> /\ ev.resp.status = 200
    /\ ev.resp.count = 0 /\ ev.resp.dimensions = 0
    /\ Len(embeddingCache) > 0 /\ cacheHits > 0 /\ Pending > 0

\* C14 (as claimed): a batch whose input is not an array, or is an empty
\* array, is answered 400.
C14_BatchValidation ==
    (ev.op = "batch" /\ embedder # "null" /\ (~IsArray(ev.texts) \/ ev.texts = <<>>))
        => ev.resp.status = 400

\* C14 (amended): with the model ready, a batch is answered 400 exactly if its
\* input is not an array, and then nothing else changes; an empty array is not
\* refused.
C14_BatchValidationNotArray ==
    [][(ev'.op = "batch" /\ embedder # "null")
        => /\ (ev'.resp.status = 400) = (ev'.texts = NotArray)
           /\ ev'.texts = NotArray
                => /\ ev'.calls = <<>>
                   /\ UNCHANGED <<embeddingCache, requestCount, cacheHits, reqs>>
      ]_vars

\* a batch whose input is no array was just answered 400
C14_Witness ==
    /\ ev.op = "batch" /\ ev.texts = NotArray /\ ev.resp.status = 400
    /\ embedder # "null"

Failed(r) == \E i \in 1..Len(r.elems) : r.elems[i].st = "fail"

\* C15: a batch one of whose model calls rejected is answered with one error
\* response: the first rejection is answered 500, every later settlement of the
\* batch sends nothing, and a success response never holds an absent vector.
C15_BatchFailsAsUnit ==
    [][/\ \A s \in Slots :
            (reqs[s].kind = "batch" /\ reqs'[s] # reqs[s])
                => /\ (ev'.op = "reject" /\ ~Failed(reqs[s]))
                        => ev'.resp.status = 500 /\ ev'.resp.embeddings = <<>>
                   /\ Failed(reqs[s]) => ev'.resp = NoResp
                   /\ Failed(reqs'[s]) => reqs'[s].responded
       /\ (ev'.op \in {"batch", "resolve"} /\ ev'.resp.status = 200
                /\ IsArray(ev'.texts) /\ ev'.texts # <<>>)
            => /\ Len(ev'.resp.embeddings) = Len(ev'.texts)
               /\ \A i \in 1..Len(ev'.texts) : ev'.resp.embeddings[i] # NoVec
      ]_vars

\* the first of a batch's two model calls just rejected and was answered 500,
\* the other is still in flight
C15_Witness ==
    /\ ev.op = "reject" /\ Len(ev.texts) = 2 /\ ev.resp.status = 500
    /\ \E s \in Slots : /\ reqs[s].kind = "batch" /\ reqs[s].texts = ev.texts
                        /\ reqs[s].responded /\ Failed(reqs[s])
                        /\ PendingIn(reqs[s].elems) = 1

KeySet(m) == {m[i].key : i \in 1..Len(m)}

\* C16 (as claimed): a batch of one uncached text given twice calls the model
\* twice, and the insertion of a model result under a key that an earlier
\* result already occupies leaves exactly one entry for the key, loses no
\* other entry and keeps the cache within its capacity.
C16_ConcurrentIdenticalMisses ==
    [][/\ (ev'.op = "batch" /\ embedder # "null" /\ IsArray(ev'.texts)
                /\ Len(ev'.texts) = 2 /\ ev'.texts[1] = ev'.texts[2]
                /\ ~MapHas(embeddingCache, getCacheKey(ev'.texts[1])))
            => ev'.calls = ev'.texts
       /\ (ev'.op = "resolve" /\ MapHas(embeddingCache, SetKey))
            => /\ Cardinality({i \in 1..Len(embeddingCache') :
                                   embeddingCache'[i].key = SetKey}) = 1
               /\ KeySet(embeddingCache) \subseteq KeySet(embeddingCache')
               /\ Len(embeddingCache') <= MAX_CACHE_SIZE
      ]_vars

\* key is text cut to its first KEY_PREFIX_LEN characters
IsKeyOf(key, text) ==
    /\ Len(key) = Min(Len(text), KEY_PREFIX_LEN)
    /\ \A i \in 1..Len(key) : key[i] = text[i]

\* C17: every cache entry holds the vector a model call produced for the full
\* text of a request element whose first KEY_PREFIX_LEN characters are the
\* entry's key; a miss calls the model with the full text, and the result of a
\* model call is stored under the key of its text and nowhere else.
C17_CacheIntegrity ==
    [][/\ \A i \in 1..Len(embeddingCache') :
            /\ embeddingCache'[i].val # NoVec
            /\ embeddingCache'[i].val.of \in Texts
            /\ IsKeyOf(embeddingCache'[i].key, embeddingCache'[i].val.of)
       /\ (ev'.op = "embed" /\ ev'.resp = NoResp) => ev'.calls = <<ev'.text>>
       /\ (ev'.op = "batch" /\ ev'.resp = NoResp)
            => /\ ev'.calls # <<>>
               /\ \A j \in 1..Len(ev'.calls) : ev'.calls[j] \in Range(ev'.texts)
       /\ ev'.op = "resolve"
            => /\ \E s \in Slots : /\ ev'.idx \in 1..Len(reqs[s].elems)
                                   /\ reqs[s].texts[ev'.idx] = ev'.text
                                   /\ reqs[s].elems[ev'.idx].st = "pending"
               /\ \E i \in 1..Len(embeddingCache') :
                      /\ IsKeyOf(embeddingCache'[i].key, ev'.text)
                      /\ embeddingCache'[i].val = Embed(ev'.text)
               /\ \A i \in 1..Len(embeddingCache') :
                      \/ /\ IsKeyOf(embeddingCache'[i].key, ev'.text)
                         /\ embeddingCache'[i].val = Embed(ev'.text)
                      \/ \E j \in 1..Len(embeddingCache) :
                             embeddingCache[j] = embeddingCache'[i]
       /\ ev'.op \notin {"resolve", "clear"} => embeddingCache' = embeddingCache
      ]_vars

\* the cache holds, under a key shorter than the text, the vector of that text
C17_Witness ==
    /\ ev.op = "resolve" /\ Len(ev.text) > KEY_PREFIX_LEN
    /\ \E i \in 1..Len(embeddingCache) :
           /\ embeddingCache[i].val = Embed(ev.text)
           /\ embeddingCache[i].key # ev.text
    /\ Len(embeddingCache) = 2

\* C18: the hit counter never exceeds the request counter, in the program's
\* state and in the figures a health response reports.
C18_HitsAtMostRequests ==
    /\ cacheHits <= requestCount
    /\ ev.op = "health" => ev.resp.stats.cacheHits <= ev.resp.stats.requests

\* every element counted since the last clear was a hit, while a model call
\* started before the clear is still in flight
C18_Witness ==
    /\ cacheHits = requestCount /\ requestCount = 2
    /\ Pending > 0

\* C19: the rejection that makes a batch answer with an error leaves the
\* batch's other model calls in flight, and each of them that resolves
\* afterwards sends no response and inserts its vector into the cache.
C19_SiblingsNotCancelled ==
    [][\A s \in Slots :
          (reqs[s].kind = "batch" /\ reqs'[s] # reqs[s])
              => /\ ev'.op = "reject"
                     => \A j \in 1..Len(reqs[s].elems) :
                            (j # ev'.idx /\ reqs[s].elems[j].st = "pending")
                                => /\ reqs'[s].kind = "batch"
                                   /\ reqs'[s].texts = reqs[s].texts
                                   /\ reqs'[s].elems[j].st = "pending"
                 /\ (ev'.op = "resolve" /\ reqs[s].responded)
                     => /\ ev'.resp = NoResp
                        /\ MapHas(embeddingCache', SetKey)
                        /\ MapGet(embeddingCache', SetKey) = Embed(ev'.text)
      ]_vars

\* a batch answered with an error earlier has just had its last model call
\* resolve: nothing was sent, and the cache holds the vector
C19_Witness ==
    /\ ev.op = "resolve" /\ Len(ev.texts) = 2 /\ ev.resp = NoResp
    /\ \A s \in Slots : reqs[s].kind = "none"
    /\ embeddingCache = <<[key |-> getCacheKey(ev.text), val |-> Embed(ev.text)]>>

Unanswered(s) == reqs[s].kind # "none" /\ ~reqs[s].responded

\* C20: every request is answered exactly once. A request is answered in its
\* own step or left in flight unanswered with a model call pending; a request
\* in flight is answered by the settlement that rejects first or resolves
\* last, and by no other; and, every model call settling, each unanswered
\* request is eventually answered.
C20_AnsweredExactlyOnce ==
    /\ [][/\ ev'.op \in {"embed", "batch"}
               => \/ ev'.resp # NoResp /\ reqs' = reqs
                  \/ /\ ev'.resp = NoResp
                     /\ \E s \in Slots :
                           /\ reqs[s].kind = "none" /\ Unanswered(s)'
                           /\ PendingIn(reqs'[s].elems) > 0
                           /\ \A t \in Slots \ {s} : reqs'[t] = reqs[t]
          /\ ev'.op \in {"clear", "health"} => ev'.resp.status = 200 /\ reqs' = reqs
          /\ \A s \in Slots :
                (reqs[s].kind # "none" /\ reqs'[s] # reqs[s])
                    => /\ ev'.op \in {"resolve", "reject"}
                       /\ (ev'.resp # NoResp) = (Unanswered(s) /\ ~Unanswered(s)')
                       /\ Unanswered(s)' => PendingIn(reqs'[s].elems) > 0
         ]_vars
    /\ \A s \in Slots : Unanswered(s) ~> ~Unanswered(s)

\* a request in flight has just been answered by the resolution of its last
\* model call while another request is still unanswered
C20_Witness ==
    /\ ev.op = "resolve" /\ ev.resp.status = 200
    /\ \E s \in Slots : Unanswered(s) /\ PendingIn(reqs[s].elems) > 0

====
